---- MODULE Spec2Model ----
(***************************************************************************)
(* Explicit (forward-Euler) finite-difference solvers for the 1-D heat     *)
(* equation, with their stability reports:                                 *)
(*   heat_equation.py      solve_heat_equation_euler, check_stability      *)
(*   heat_eq_fr.py         explicit_heat, the Nt_list stability report     *)
(*   stability_analysis.py analyze_stability                               *)
(*                                                                         *)
(* Arithmetic.  The sources compute in binary floating point; the model    *)
(* computes the same expressions in exact rational arithmetic.  Scalars    *)
(* (L, T, D, dt, dx, r, grid points) are normalised fractions <<num, den>>.*)
(* Temperatures are integers counting 1/Unit of a degree, where            *)
(* Unit = TanhDen * (denominator of r)^Nt, so that every row of a run is   *)
(* represented exactly and rows can be compared with each other directly.  *)
(* np.tanh is a library function; it is tabulated (TanhTable) at the grid  *)
(* arguments the model reaches, truncated to 1/TanhDen, which keeps        *)
(* |tanh| < 1 as the float results do for every argument used here.        *)
(***************************************************************************)
EXTENDS Integers, Sequences, FiniteSets, TLC

(* ------------------------------ bounds -------------------------------- *)
MaxL == 2
MaxT == 2
MaxNt == 3
MaxNx == 5
TanhDen == 1000
MaxGrowth == 10000
ReportWindow == 60

(* ------------------------- program constants -------------------------- *)
A == 10
B == 10
c == 0
scale == <<1, 10>>
Half == <<1, 2>>
Diffusivities == {<<1, 20>>, <<1, 8>>, <<1, 32>>}
SampleTemps == {-10, 30}

(* --------------------------- rational helpers ------------------------- *)
Abs(v) == IF v < 0 THEN -v ELSE v

\* a function, so that its arguments are values at every level of the recursion
GCD[a \in Nat, b \in Nat] == IF b = 0 THEN a ELSE GCD[b, a % b]

RatNorm(num, den) ==
  LET g == GCD[Abs(num), den]
  IN  <<num \div g, den \div g>>

RatMul(p, q) == RatNorm(p[1] * q[1], p[2] * q[2])

RatDiv(p, q) == RatNorm(p[1] * q[2], p[2] * q[1])

RatSub(p, q) == RatNorm(p[1] * q[2] - q[1] * p[2], p[2] * q[2])

RatLe(p, q) == p[1] * q[2] <= q[1] * p[2]

RatLt(p, q) == p[1] * q[2] < q[1] * p[2]

RECURSIVE Pow(_, _)
Pow(b, e) == IF e = 0 THEN 1 ELSE b * Pow(b, e - 1)

\* b^e, saturating just above cap (keeps the guard itself in range)
RECURSIVE PowCap(_, _, _)
PowCap(b, e, cap) ==
  IF e = 0 THEN 1
  ELSE LET p == PowCap(b, e - 1, cap)
       IN  IF p > cap \div b THEN cap + 1 ELSE p * b

(* ---------------------------- numpy helpers --------------------------- *)
\* np.linspace(0, stop, num): num points, evenly spaced, both ends included
Linspace(stop, num) == [i \in 1..num |-> RatNorm((i - 1) * stop, num - 1)]

\* np.zeros((rows, cols))
Zeros(rows, cols) == [i \in 1..rows |-> [j \in 1..cols |-> 0]]

VecAdd(u, v) == [i \in DOMAIN u |-> u[i] + v[i]]

VecSub(u, v) == [i \in DOMAIN u |-> u[i] - v[i]]

VecTimes(k, v) == [i \in DOMAIN v |-> k * v[i]]

\* ratio * v for a fraction ratio; the division is exact on the rows of a run
ScaleBy(ratio, v) == [i \in DOMAIN v |-> (v[i] \div ratio[2]) * ratio[1]]

\* row[1:-1], row[2:], row[:-2]
Inner(row) == SubSeq(row, 2, Len(row) - 1)

RightOf(row) == SubSeq(row, 3, Len(row))

LeftOf(row) == SubSeq(row, 1, Len(row) - 2)

\* row[1:-1] = vals
SetInner(row, vals) ==
  [i \in DOMAIN row |-> IF 1 < i /\ i < Len(row) THEN vals[i - 1] ELSE row[i]]

\* np.tanh at a >= 0, in 1/TanhDen, truncated
TanhTable(a) ==
  CASE a = <<0, 1>> -> 0
    [] a = <<1, 5>> -> 197
    [] a = <<1, 4>> -> 244
    [] a = <<1, 3>> -> 321
    [] a = <<2, 5>> -> 379
    [] a = <<1, 2>> -> 462
    [] a = <<3, 5>> -> 537
    [] a = <<2, 3>> -> 582
    [] a = <<3, 4>> -> 635
    [] a = <<4, 5>> -> 664
    [] a = <<1, 1>> -> 761
    [] a = <<6, 5>> -> 833
    [] a = <<4, 3>> -> 870
    [] a = <<3, 2>> -> 905
    [] a = <<8, 5>> -> 921
    [] a = <<5, 3>> -> 931
    [] a = <<9, 5>> -> 946
    [] a = <<2, 1>> -> 964
    [] a = <<9, 4>> -> 978
    [] a = <<12, 5>> -> 983
    [] a = <<5, 2>> -> 986
    [] a = <<3, 1>> -> 995
    [] a = <<10, 3>> -> 997
    [] a = <<5, 1>> -> 999
    [] a = <<6, 1>> -> 999
    [] a = <<15, 2>> -> 999
    [] a = <<9, 1>> -> 999
    [] a = <<10, 1>> -> 999
    [] a = <<15, 1>> -> 999

\* np.tanh is odd
Tanh(a) == IF a[1] < 0 THEN -TanhTable(<<-a[1], a[2]>>) ELSE TanhTable(a)

(* ------------------------------- state -------------------------------- *)
VARIABLES
  variant,           \* "euler": solve_heat_equation_euler; "fr": explicit_heat;
                     \* "report": the stability reports
  L, T, D, Nt, Nx,   \* the call's arguments
  U_init,            \* explicit_heat's initial-profile argument
  x, U0,             \* spatial grid and initial profile
  dt, dx,            \* step sizes the solver computes
  is_stable, stability_factor,   \* check_stability's result
  r,                 \* update coefficient (r in heat_equation.py)
  alpha,             \* update coefficient (alpha in heat_eq_fr.py)
  U,                 \* heat_equation.py: the field; heat_eq_fr.py: current row
  U_all, U_new,      \* heat_eq_fr.py: the field and the row being built
  n,                 \* loop index
  pc,                \* position in the solver
  result,            \* what the call returned
  verdict            \* the last stability report issued

args == <<variant, L, T, D, Nt, Nx, U_init>>

vars == <<variant, L, T, D, Nt, Nx, U_init, x, U0, dt, dx, is_stable,
          stability_factor, r, alpha, U, U_all, U_new, n, pc, result, verdict>>

None == <<>>

(* ------------------------ shared pure functions ----------------------- *)
\* dt = T / Nt
TimeStep(dur, nt) == RatNorm(dur, nt)

\* heat_equation.py and stability_analysis.py: dx = L / Nx
EulerDx(len, nx) == RatNorm(len, nx)

\* heat_eq_fr.py: dx = L / (Nx - 1)
FrDx(len, nx) == RatNorm(len, nx - 1)

\* D * dt / dx**2
Ratio(d, step, h) == RatDiv(RatMul(d, step), RatMul(h, h))

\* the coefficient the chosen solver will use, from its arguments
CoefOf(v, len, dur, d, nt, nx) ==
  Ratio(d, TimeStep(dur, nt), IF v = "euler" THEN EulerDx(len, nx) ELSE FrDx(len, nx))

\* temperatures are counted in 1/Unit of a degree
Unit == TanhDen * Pow(CoefOf(variant, L, T, D, Nt, Nx)[2], Nt)

Degrees(k) == k * Unit

Milli(m) == m * (Unit \div TanhDen)

\* the representation stays inside TLC's integers
Fits(v, len, dur, d, nt, nx) ==
  LET q == CoefOf(v, len, dur, d, nt, nx)
  IN  PowCap(q[2] + 4 * q[1], nt, MaxGrowth) <= MaxGrowth

(* --------------------------- heat_equation.py ------------------------- *)
\* initialize_conditions: U0 = A - B * np.tanh(c - x)
InitializeConditions(grid) ==
  [i \in DOMAIN grid |-> Milli(A * TanhDen - B * Tanh(RatSub(<<c, 1>>, grid[i])))]

\* a strict comparison in place of <=
StableStrict(sf) == RatLt(sf, Half)

\* is_stable = stability_factor <= 0.5
StableLe(sf) == RatLe(sf, Half)

\* check_stability(D, T, Nt, Nx, L): (is_stable, stability_factor)
CheckStability(d, dur, nt, nx, len) ==
  LET sf == Ratio(d, TimeStep(dur, nt), EulerDx(len, nx))
  IN  <<StableLe(sf), sf>>

\* the stencil without the factor 2 on the centre value
InteriorUpdateNoTwo(row, coef) ==
  VecAdd(Inner(row),
         ScaleBy(coef, VecAdd(VecSub(RightOf(row), Inner(row)), LeftOf(row))))

\* the stencil with the sign of the diffusion term reversed
InteriorUpdateMinus(row, coef) ==
  VecSub(Inner(row),
         ScaleBy(coef, VecAdd(VecSub(RightOf(row), VecTimes(2, Inner(row))),
                              LeftOf(row))))

\* the stencil applied in place, left to right: entry i reads the already
\* updated entry i - 1
RECURSIVE InPlaceFrom(_, _, _)
InPlaceFrom(row, coef, i) ==
  IF i > Len(row) - 1 THEN row
  ELSE InPlaceFrom(
         [row EXCEPT ![i] = row[i] + ((row[i + 1] - 2 * row[i] + row[i - 1])
                                        \div coef[2]) * coef[1]],
         coef, i + 1)

InteriorUpdateInPlace(row, coef) == Inner(InPlaceFrom(row, coef, 2))

\* row[1:-1] + coef * (row[2:] - 2 * row[1:-1] + row[:-2])
InteriorUpdate(row, coef) ==
  VecAdd(Inner(row),
         ScaleBy(coef, VecAdd(VecSub(RightOf(row), VecTimes(2, Inner(row))),
                              LeftOf(row))))

\* a loop that gives up one iteration early
LoopStopsEarly(i, nt) == i + 2 < nt

\* for n in range(Nt): is there another iteration after iteration i
LoopContinues(i, nt) == i + 1 < nt

\* a return that also hands back the coefficient
EulerResultWithRatio(grid, times, field) ==
  [x |-> grid, t |-> times, U |-> field, r |-> r]

\* return x, t, U
EulerResult(grid, times, field) == [x |-> grid, t |-> times, U |-> field]

EInitialize ==
  /\ pc = "e_init"
  /\ x' = Linspace(L, Nx)
  /\ U0' = InitializeConditions(x')
  /\ dt' = TimeStep(T, Nt)
  /\ dx' = EulerDx(L, Nx)
  /\ pc' = "e_check"
  /\ UNCHANGED <<args, is_stable, stability_factor, r, alpha, U, U_all, U_new,
                 n, result, verdict>>

ECheckStability ==
  /\ pc = "e_check"
  /\ LET cs == CheckStability(D, T, Nt, Nx, L)
     IN  /\ is_stable' = cs[1]
         /\ stability_factor' = cs[2]
         /\ verdict' = [place |-> "check_stability", ratio |-> cs[2],
                        stable |-> cs[1], L |-> L, T |-> T, D |-> D, Nt |-> Nt,
                        Nx |-> Nx, Nt_required |-> 0]
  /\ pc' = "e_alloc"
  /\ UNCHANGED <<args, x, U0, dt, dx, r, alpha, U, U_all, U_new, n, result>>

EAlloc ==
  /\ pc = "e_alloc"
  /\ U' = [Zeros(Nt + 1, Nx) EXCEPT ![1] = U0]
  /\ pc' = "e_coef"
  /\ UNCHANGED <<args, x, U0, dt, dx, is_stable, stability_factor, r, alpha,
                 U_all, U_new, n, result, verdict>>

ECoef ==
  /\ pc = "e_coef"
  /\ r' = Ratio(D, dt, dx)
  /\ n' = 0
  /\ pc' = IF 0 < Nt THEN "e_interior" ELSE "e_return"
  /\ UNCHANGED <<args, x, U0, dt, dx, is_stable, stability_factor, alpha, U,
                 U_all, U_new, result, verdict>>

EInterior ==
  /\ pc = "e_interior"
  /\ U' = [U EXCEPT ![n + 2] = SetInner(@, InteriorUpdate(U[n + 1], r))]
  /\ pc' = "e_left"
  /\ UNCHANGED <<args, x, U0, dt, dx, is_stable, stability_factor, r, alpha,
                 U_all, U_new, n, result, verdict>>

ELeft ==
  /\ pc = "e_left"
  /\ U' = [U EXCEPT ![n + 2][1] = Degrees(A + B)]
  /\ pc' = "e_right"
  /\ UNCHANGED <<args, x, U0, dt, dx, is_stable, stability_factor, r, alpha,
                 U_all, U_new, n, result, verdict>>

ERight ==
  /\ pc = "e_right"
  /\ U' = [U EXCEPT ![n + 2][Nx] = Degrees(A - B)]
  /\ IF LoopContinues(n, Nt)
       THEN n' = n + 1 /\ pc' = "e_interior"
       ELSE n' = n /\ pc' = "e_return"
  /\ UNCHANGED <<args, x, U0, dt, dx, is_stable, stability_factor, r, alpha,
                 U_all, U_new, result, verdict>>

EReturn ==
  /\ pc = "e_return"
  /\ result' = EulerResult(x, Linspace(T, Nt + 1), U)
  /\ pc' = "done"
  /\ UNCHANGED <<args, x, U0, dt, dx, is_stable, stability_factor, r, alpha, U,
                 U_all, U_new, n, verdict>>

(* ----------------------------- heat_eq_fr.py -------------------------- *)
\* initial_profile: A - B * np.tanh((x - L/2) / scale)
InitialProfile(grid, len) ==
  [i \in DOMAIN grid |->
     Milli(A * TanhDen
           - B * Tanh(RatDiv(RatSub(grid[i], RatNorm(len, 2)), scale)))]

U1 == Degrees(A + B)

U2 == Degrees(A - B)

\* return U_all, alpha, dt
FrResult(field, coef, step) == [U_all |-> field, alpha |-> coef, dt |-> step]

FSetup ==
  /\ pc = "f_setup"
  /\ dx' = FrDx(L, Nx)
  /\ dt' = TimeStep(T, Nt)
  /\ alpha' = Ratio(D, dt', dx')
  /\ pc' = "f_alloc"
  /\ UNCHANGED <<args, x, U0, is_stable, stability_factor, r, U, U_all, U_new,
                 n, result, verdict>>

FAlloc ==
  /\ pc = "f_alloc"
  /\ U_all' = [Zeros(Nt + 1, Nx) EXCEPT ![1] = U_init]
  /\ pc' = "f_copyinit"
  /\ UNCHANGED <<args, x, U0, dt, dx, is_stable, stability_factor, r, alpha, U,
                 U_new, n, result, verdict>>

FCopyInit ==
  /\ pc = "f_copyinit"
  /\ U' = U_init
  /\ n' = 0
  /\ pc' = IF 0 < Nt THEN "f_copy" ELSE "f_return"
  /\ UNCHANGED <<args, x, U0, dt, dx, is_stable, stability_factor, r, alpha,
                 U_all, U_new, result, verdict>>

FCopy ==
  /\ pc = "f_copy"
  /\ U_new' = U
  /\ pc' = "f_interior"
  /\ UNCHANGED <<args, x, U0, dt, dx, is_stable, stability_factor, r, alpha, U,
                 U_all, n, result, verdict>>

FInterior ==
  /\ pc = "f_interior"
  /\ U_new' = SetInner(U_new, InteriorUpdate(U, alpha))
  /\ pc' = "f_left"
  /\ UNCHANGED <<args, x, U0, dt, dx, is_stable, stability_factor, r, alpha, U,
                 U_all, n, result, verdict>>

FLeft ==
  /\ pc = "f_left"
  /\ U_new' = [U_new EXCEPT ![1] = U1]
  /\ pc' = "f_right"
  /\ UNCHANGED <<args, x, U0, dt, dx, is_stable, stability_factor, r, alpha, U,
                 U_all, n, result, verdict>>

FRight ==
  /\ pc = "f_right"
  /\ U_new' = [U_new EXCEPT ![Nx] = U2]
  /\ pc' = "f_store"
  /\ UNCHANGED <<args, x, U0, dt, dx, is_stable, stability_factor, r, alpha, U,
                 U_all, n, result, verdict>>

FStore ==
  /\ pc = "f_store"
  /\ U_all' = [U_all EXCEPT ![n + 2] = U_new]
  /\ pc' = "f_advance"
  /\ UNCHANGED <<args, x, U0, dt, dx, is_stable, stability_factor, r, alpha, U,
                 U_new, n, result, verdict>>

FAdvance ==
  /\ pc = "f_advance"
  /\ U' = U_new
  /\ IF LoopContinues(n, Nt)
       THEN n' = n + 1 /\ pc' = "f_copy"
       ELSE n' = n /\ pc' = "f_return"
  /\ UNCHANGED <<args, x, U0, dt, dx, is_stable, stability_factor, r, alpha,
                 U_all, U_new, result, verdict>>

FReturn ==
  /\ pc = "f_return"
  /\ result' = FrResult(U_all, alpha, dt)
  /\ pc' = "done"
  /\ UNCHANGED <<args, x, U0, dt, dx, is_stable, stability_factor, r, alpha, U,
                 U_all, U_new, n, verdict>>

(* --------------------------- the solver runs -------------------------- *)
\* profiles a caller may hand to explicit_heat besides the program's own
SampleProfiles(nx) ==
  {[i \in 1..nx |-> Degrees(s[i])] : s \in [1..nx -> SampleTemps]}

Init ==
  \E v \in {"euler", "fr"}, len \in 1..MaxL, dur \in 1..MaxT,
     d \in Diffusivities, nt \in 1..MaxNt, nx \in 3..MaxNx :
    /\ Fits(v, len, dur, d, nt, nx)
    /\ variant = v /\ L = len /\ T = dur /\ D = d /\ Nt = nt /\ Nx = nx
    /\ IF v = "euler"
         THEN /\ x = None /\ U0 = None /\ U_init = None
              /\ pc = "e_init"
         ELSE /\ x = Linspace(len, nx)
              /\ U0 = InitialProfile(x, len)
              /\ U_init \in {U0} \cup SampleProfiles(nx)
              /\ pc = "f_setup"
    /\ dt = None /\ dx = None /\ is_stable = FALSE /\ stability_factor = None
    /\ r = None /\ alpha = None /\ U = None /\ U_all = None /\ U_new = None
    /\ n = 0 /\ result = None /\ verdict = None

Next ==
  \/ EInitialize \/ ECheckStability \/ EAlloc \/ ECoef
  \/ EInterior \/ ELeft \/ ERight \/ EReturn
  \/ FSetup \/ FAlloc \/ FCopyInit
  \/ FCopy \/ FInterior \/ FLeft \/ FRight \/ FStore \/ FAdvance \/ FReturn

Spec == Init /\ [][Next]_vars

\* the solver is one sequential call: every enabled step is eventually taken
FairSpec == Spec /\ WF_vars(Next)

(* ------------------------- the stability reports ---------------------- *)
\* the parameters of the scripts' own calls
OrigNx == 1500
OrigNt == 100
DemoNx == 100
DemoNt == 1001
Threshold == 225000
OrigD == <<1, 20>>
Nt_list == <<50, 200, 500, 1000, 1500, 3000>>

\* np.ceil of a positive fraction
Ceil(q) == -((-q[1]) \div q[2])

\* Nt_required = int(np.ceil(2 * D * T * Nx**2 / L**2))
NtRequired(len, dur, d, nx) ==
  Ceil(RatDiv(RatMul(<<2 * dur * nx * nx, 1>>, d), <<len * len, 1>>))

\* a strict comparison in place of <=
AnalyzeStrict(q) == RatLt(q, Half)

\* 'STABLE' if r <= 0.5 else 'UNSTABLE'; return r <= 0.5
AnalyzeLe(q) == RatLe(q, Half)

\* analyze_stability(L, T, D, Nt, Nx)
AnalyzeStability(len, dur, d, nt, nx) ==
  LET q == Ratio(d, TimeStep(dur, nt), EulerDx(len, nx))
  IN  [place |-> "analyze_stability", ratio |-> q, stable |-> AnalyzeLe(q),
       L |-> len, T |-> dur, D |-> d, Nt |-> nt, Nx |-> nx,
       Nt_required |-> IF RatLt(Half, q) THEN NtRequired(len, dur, d, nx) ELSE 0]

\* '(Stable)' if alpha < 0.5 else '(Instable)'
ListLt(q) == RatLt(q, Half)

\* heat_eq_fr.py, one line of the Nt_list report; dx = x[1] - x[0] of the
\* module's grid x = np.linspace(0, L, Nx) with L = 1.0, Nx = 100, T = 1.0
NtListLine(Nt_val) ==
  LET grid == Linspace(1, DemoNx)
      h    == RatSub(grid[2], grid[1])
      q    == Ratio(OrigD, TimeStep(1, Nt_val), h)
  IN  [place |-> "Nt_list", ratio |-> q, stable |-> ListLt(q),
       L |-> 1, T |-> 1, D |-> OrigD, Nt |-> Nt_val, Nx |-> DemoNx,
       Nt_required |-> 0]

\* argument values the reports are called with: small ones, the scripts' own,
\* and a window of Nt around the threshold the scripts print
ReportNt ==
  (1..MaxNt) \cup {50, 500, 1000, DemoNt, OrigNt, Threshold + 1}
  \cup ((Threshold - ReportWindow)..(Threshold + ReportWindow))

ReportNx == (3..MaxNx) \cup {50, DemoNx, OrigNx}

ReportArgs ==
  {a \in (1..MaxL) \X (1..MaxT) \X Diffusivities \X ReportNt \X ReportNx :
     (a[4] > Threshold - ReportWindow - 1 \/ a[5] = OrigNx)
       => (a[1] = 1 /\ a[2] = 1 /\ a[3] = OrigD /\ a[5] = OrigNx)}

RCheckStability ==
  /\ pc = "report"
  /\ LET cs == CheckStability(D, T, Nt, Nx, L)
     IN  verdict' = [place |-> "check_stability", ratio |-> cs[2],
                     stable |-> cs[1], L |-> L, T |-> T, D |-> D, Nt |-> Nt,
                     Nx |-> Nx, Nt_required |-> 0]
  /\ pc' = "reported"
  /\ UNCHANGED <<args, x, U0, dt, dx, is_stable, stability_factor, r, alpha, U,
                 U_all, U_new, n, result>>

RAnalyze ==
  /\ pc = "report"
  /\ verdict' = AnalyzeStability(L, T, D, Nt, Nx)
  /\ pc' = "reported"
  /\ UNCHANGED <<args, x, U0, dt, dx, is_stable, stability_factor, r, alpha, U,
                 U_all, U_new, n, result>>

\* for Nt_val in Nt_list: n counts the lines printed so far
RNtList ==
  /\ pc \in {"report", "listing"}
  /\ n < Len(Nt_list)
  /\ verdict' = NtListLine(Nt_list[n + 1])
  /\ n' = n + 1
  /\ pc' = "listing"
  /\ UNCHANGED <<args, x, U0, dt, dx, is_stable, stability_factor, r, alpha, U,
                 U_all, U_new, result>>

\* one report call; its arguments are drawn here
ReportInit ==
  /\ \E a \in ReportArgs :
       L = a[1] /\ T = a[2] /\ D = a[3] /\ Nt = a[4] /\ Nx = a[5]
  /\ variant = "report" /\ pc = "report" /\ n = 0
  /\ U_init = None /\ x = None /\ U0 = None
  /\ dt = None /\ dx = None /\ is_stable = FALSE /\ stability_factor = None
  /\ r = None /\ alpha = None /\ U = None /\ U_all = None /\ U_new = None
  /\ result = None /\ verdict = None

ReportNext == RCheckStability \/ RAnalyze \/ RNtList

ReportSpec == ReportInit /\ [][ReportNext]_vars

(* ============================== properties ============================ *)
Done == pc = "done"

\* the field a finished call handed back
Returned == IF variant = "euler" THEN result.U ELSE result.U_all

\* the field while it is being built
Field == IF variant = "euler" THEN U ELSE U_all

Coef == IF variant = "euler" THEN r ELSE alpha

\* the initial profile the solver started from
Profile == IF variant = "euler" THEN U0 ELSE U_init

\* the run started from the profile the program itself builds
ProgramProfile == variant = "euler" \/ U_init = U0

Stable == RatLe(Coef, Half)

U_left == Degrees(A + B)

U_right == Degrees(A - B)

Range(s) == {s[i] : i \in DOMAIN s}

SetMin(S) == CHOOSE v \in S : \A w \in S : v <= w

SetMax(S) == CHOOSE v \in S : \A w \in S : w <= v

Interior == 2..(Nx - 1)

(* C1: every row of the returned field, row 0 included, holds U_left in   *)
(* its first column and U_right in its last.                              *)
BoundaryEveryRow ==
  Done => \A m \in 1..(Nt + 1) :
            Returned[m][1] = U_left /\ Returned[m][Nx] = U_right

(* C2: row 0 of the returned field is the initial profile with the        *)
(* boundary constants applied: interior values of the profile, U_left     *)
(* first, U_right last.                                                   *)
RowZeroIsBoundedProfile ==
  Done => /\ \A i \in Interior : Returned[1][i] = Profile[i]
          /\ Returned[1][1] = U_left
          /\ Returned[1][Nx] = U_right

GridKeys == {"x"}

TimeKeys == {"t"}

FieldKeys == {"U", "U_all"}

RatioKeys == {"r", "alpha", "stability_factor"}

(* C5 as stated: the result of a solver call contains the spatial grid,   *)
(* the time grid, the temperature field and the stability ratio r.        *)
ResultCarriesAll ==
  Done => /\ DOMAIN result \cap GridKeys # {}
          /\ DOMAIN result \cap TimeKeys # {}
          /\ DOMAIN result \cap FieldKeys # {}
          /\ DOMAIN result \cap RatioKeys # {}

(* C5 amended: solve_heat_equation_euler returns exactly (x, t, U), the   *)
(* grids and the field without r; explicit_heat returns exactly           *)
(* (U_all, alpha, dt), the field with r = D*dt/dx^2 and dt, without the   *)
(* grids.                                                                 *)
ResultCarriesWhatIsReturned ==
  Done =>
    /\ variant = "euler" =>
         /\ DOMAIN result = {"x", "t", "U"}
         /\ result.x = Linspace(L, Nx)
         /\ result.t = Linspace(T, Nt + 1)
         /\ result.U = U
    /\ variant = "fr" =>
         /\ DOMAIN result = {"U_all", "alpha", "dt"}
         /\ result.U_all = U_all
         /\ result.alpha = Ratio(D, <<T, Nt>>, <<L, Nx - 1>>)
         /\ result.dt = RatNorm(T, Nt)

ResultWitness ==
  /\ Done /\ variant = "euler" /\ ~Stable
  /\ DOMAIN result \cap RatioKeys = {}

(* C6: for every valid (Nt, Nx) and any L, T, D, stable or not, the       *)
(* solver terminates, having written each of the rows 1..Nt, and returns  *)
(* a field of exactly Nt+1 rows of Nx columns.                            *)
AlwaysCompletes ==
  /\ <>Done
  /\ [](Done => /\ Len(Returned) = Nt + 1
                /\ \A m \in 1..(Nt + 1) : Len(Returned[m]) = Nx
                /\ n + 1 = Nt
                /\ \A m \in 2..(Nt + 1) : Returned[m][1] = U_left)

CompletesWitness ==
  Done /\ ~Stable /\ Nt = MaxNt /\ Len(Returned) = Nt + 1

\* Nx - 1 times the distance of entry (m, i) from the straight line between
\* U_left at the first grid point and U_right at the last
Dist(F, m, i) ==
  Abs((Nx - 1) * F[m][i] - ((Nx - i) * U_left + (i - 1) * U_right))

MaxDist(F, m) == SetMax({Dist(F, m, i) : i \in 1..Nx})

RowsWritten ==
  IF pc \in {"e_init", "e_check", "e_alloc", "f_setup", "f_alloc"} THEN 0
  ELSE IF pc \in {"e_coef", "f_copyinit"} THEN 1
  ELSE IF pc \in {"e_return", "f_return", "done"} THEN n + 2
  ELSE n + 1

\* row m + 1 is the stencil applied to the stored row m
StencilRow(F, m) ==
  \A i \in Interior :
    LET d2 == F[m][i + 1] - 2 * F[m][i] + F[m][i - 1]
    IN  /\ d2 % Coef[2] = 0
        /\ F[m + 1][i] = F[m][i] + Coef[1] * (d2 \div Coef[2])

(* C8: every interior entry of row n+1 is                                 *)
(* field[n][i] + r*(field[n][i+1] - 2*field[n][i] + field[n][i-1])        *)
(* of the stored row n; rows are produced in the order 1, 2, ..., Nt; and *)
(* a completed row is never changed by a later step.                      *)
UpdateRule ==
  /\ [](Done => \A m \in 1..Nt : StencilRow(Returned, m))
  /\ [][/\ RowsWritten' >= RowsWritten
        /\ RowsWritten' <= RowsWritten + 1
        /\ \A m \in 1..RowsWritten : Field'[m] = Field[m]]_vars

UpdateRuleWitness ==
  /\ Done /\ Nt >= 2
  /\ \E i \in Interior : Returned[3][i] # Returned[2][i]
  /\ \E i \in Interior : Returned[2][i] # Returned[1][i]

(* C9: the grid spacing dx the solver uses for r is the distance between  *)
(* adjacent points of the spatial grid of the same call.                  *)
SpacingMatchesGrid ==
  (dx # None /\ x # None) => dx = RatSub(x[2], x[1])

(* ----------------------- the stability reports ------------------------ *)
Reported == pc \in {"reported", "listing"}

\* the report is about the original parameters L = 1, T = 1, D = 0.05, Nx = 1500
Original ==
  /\ verdict.place = "analyze_stability"
  /\ verdict.L = 1 /\ verdict.T = 1 /\ verdict.D = OrigD /\ verdict.Nx = OrigNx

\* r = D*dt/dx^2 <= 0.5 for the arguments of the report, dx as that place
\* computes it: 2 * D * T * cells^2 <= Nt * L^2
RatioAtMostHalf ==
  LET cells == IF verdict.place = "Nt_list" THEN verdict.Nx - 1 ELSE verdict.Nx
  IN  2 * verdict.D[1] * verdict.T * cells * cells
        <= verdict.D[2] * verdict.Nt * verdict.L * verdict.L

RequiredIsLeastStable ==
  verdict.Nt_required # 0 =>
    /\ AnalyzeStability(verdict.L, verdict.T, verdict.D, verdict.Nt_required,
                        verdict.Nx).stable
    /\ verdict.Nt_required > 1
    /\ ~AnalyzeStability(verdict.L, verdict.T, verdict.D,
                         verdict.Nt_required - 1, verdict.Nx).stable

====
